---- MODULE Spec2Model ----
(***************************************************************************)
(* A model of arango.database.Database (src/arango/database.py): the       *)
(* facade that keeps two caches of proxies (collection name -> Collection, *)
(* graph name -> Graph) reconciled with the server's lists, and maps every *)
(* response's status code to a result or to a typed error.                 *)
(*                                                                         *)
(* The server is the environment: it holds the collection list, the graph  *)
(* list and the AQL function registry, answers every request with a status *)
(* code of its choosing, and may be changed out of band at any time, also  *)
(* between two requests of one facade call.                                *)
(***************************************************************************)
EXTENDS Integers, Sequences, FiniteSets, TLC

(***************************************************************************)
(* Inputs. A run is made in a world: the names its callers and its server  *)
(* use and the status codes its server answers with. The world is chosen   *)
(* when the run starts and never changes.                                  *)
(***************************************************************************)
\* A collection whose name starts with an underscore is a system collection.
IsSystemName(n) == n \in {"_b", "_d"}

World(cols, graphs, funcs, codes) ==
    [cols |-> cols, graphs |-> graphs, funcs |-> funcs, codes |-> codes]

\* An optional parameter: None, or a value.
None == [some |-> FALSE, v |-> <<>>]
Some(v) == [some |-> TRUE, v |-> v]

\* A Python value passed as a name: a str, or something else (the int 42).
Str(s) == [isStr |-> TRUE, v |-> s]
NonStr == [isStr |-> FALSE, v |-> "42"]
LookupArgs(names) == {Str(n) : n \in names} \cup {NonStr}

\* The status codes a server answers with.
StatusCodes == {200, 201, 202, 404, 500}
\* The codes with which the server reports that it did what was asked.
Done2xx == {200, 201, 202}

(***************************************************************************)
(* Values.                                                                 *)
(***************************************************************************)
NoProxy == [kind |-> "none", name |-> "", id |-> 0]
NoRes == [method |-> "", path |-> "", name |-> "", status |-> 0]
EmptyCache == [n \in {} |-> NoProxy]

Response(method, path, name, status) ==
    [method |-> method, path |-> path, name |-> name, status |-> status]

SeqToSet(s) == {s[i] : i \in 1..Len(s)}
\* A del that deletes nothing.
Keep(cache, k) == cache

Put(cache, k, v) == [x \in (DOMAIN cache) \cup {k} |-> IF x = k THEN v ELSE cache[x]]
Del(cache, k) == [x \in (DOMAIN cache) \ {k} |-> cache[x]]
Ids(cache) == {cache[k].id : k \in DOMAIN cache}

\* Object identity: a newly constructed object is none of the objects that
\* are still referenced. Identities are only ever compared for equality, so
\* the new one is the least number no live object bears.
FreshId(used) == CHOOSE i \in 1..(Cardinality(used) + 1) :
                     i \notin used /\ \A j \in 1..(i - 1) : j \in used

\* Collection(name=col_name, api=self._api)
Collection(col_name, id) == [kind |-> "Collection", name |-> col_name, id |-> id]
\* Graph(name=graph_name, api=self._api)
Graph(graph_name, id) == [kind |-> "Graph", name |-> graph_name, id |-> id]

VARIABLES
    srvCols,            \* server: the collection list, records [name, isSystem]
    srvGraphs,          \* server: the graph list, graph keys
    srvFuncs,           \* server: the AQL function registry, name -> code
    collection_cache,   \* self._collection_cache
    graph_cache,        \* self._graph_cache
    world,              \* the names and the status codes of this run
    call,               \* the facade call that just ended and what it did, or Idle
    held,               \* history: a proxy a lookup returned, while its list is unchanged
    removed,            \* history: a name a remove call removed, until it is re-created
    conc,               \* callers that run lookups side by side, step by step
    seen                \* history: real_cols and real_graphs of the last pass that
                        \* fetched its list, per cache; empty before the first

vars == <<world, srvCols, srvGraphs, srvFuncs, collection_cache, graph_cache, call, held,
          removed, conc, seen>>

(***************************************************************************)
(* The server (the environment behind self._api).                          *)
(***************************************************************************)
ColNamesOf(cols) == {cols[i].name : i \in 1..Len(cols)}

SrvAddCol(cols, n) == Append(cols, [name |-> n, isSystem |-> IsSystemName(n)])
SrvRemoveCol(cols, n) == SelectSeq(cols, LAMBDA c : c.name # n)
SrvRenameCol(cols, n, m) ==
    [i \in 1..Len(cols) |->
        IF cols[i].name = n THEN [name |-> m, isSystem |-> IsSystemName(m)] ELSE cols[i]]
SrvAddGraph(gs, n) == Append(gs, n)
SrvRemoveGraph(gs, n) == SelectSeq(gs, LAMBDA g : g # n)

\* What the server may answer to a request it can (or cannot) carry out.
Answers(possible) == IF possible THEN world.codes ELSE world.codes \ Done2xx

\* The lists after at most one out-of-band change.
DriftCols(cols) ==
    {cols} \cup {SrvAddCol(cols, n) : n \in world.cols \ ColNamesOf(cols)}
           \cup {SrvRemoveCol(cols, n) : n \in ColNamesOf(cols)}
DriftGraphs(gs) ==
    {gs} \cup {SrvAddGraph(gs, n) : n \in world.graphs \ SeqToSet(gs)}
         \cup {SrvRemoveGraph(gs, n) : n \in SeqToSet(gs)}

\* The lists a call saw the server go through: did the list change, and which
\* names were created on the way.
Changed(path) == \E k \in 1..(Len(path) - 1) : path[k + 1] # path[k]
CreatedCols(path) ==
    UNION {ColNamesOf(path[k + 1]) \ ColNamesOf(path[k]) : k \in 1..(Len(path) - 1)}
CreatedGraphs(path) ==
    UNION {SeqToSet(path[k + 1]) \ SeqToSet(path[k]) : k \in 1..(Len(path) - 1)}

(***************************************************************************)
(* What a call did: its outcome ("ok" or the kind of the error raised),    *)
(* the response the error carries, the proxy returned, the requests issued *)
(* in order, the name sets its reconciliation passes fetched, and whether  *)
(* it made a cursor.                                                       *)
(***************************************************************************)
Result(outcome, res, ret, cache, reqs, fetches) ==
    [outcome |-> outcome, res |-> res, ret |-> ret, cache |-> cache,
     reqs |-> reqs, fetches |-> fetches]

Raised(err, res, cache, reqs) == Result(err, res, NoProxy, cache, reqs, <<>>)

\* A call on a cache: it sends no payload and returns a proxy or nothing.
\* again (history) tells a lookup of the name of which held is the proxy.
CallRecord(op, args, r, cursor) ==
    [op |-> op, args |-> args, outcome |-> r.outcome, res |-> r.res, ret |-> r.ret,
     reqs |-> r.reqs, fetches |-> r.fetches, cursor |-> cursor,
     data |-> <<>>, val |-> <<>>, again |-> FALSE]

\* Any other call: data is the payload of its first request, val what it returns.
PlainRecord(op, args, outcome, res, reqs, data, val, cursor) ==
    [op |-> op, args |-> args, outcome |-> outcome, res |-> res, ret |-> NoProxy,
     reqs |-> reqs, fetches |-> <<>>, cursor |-> cursor, data |-> data, val |-> val,
     again |-> FALSE]

\* A caller of the side-by-side runs: where it is in collection(name), the
\* locals of _update_collection_cache, what it returned or raised.
IdleThread == [pc |-> "idle", name |-> "", real_cols |-> {}, stale |-> {}, new |-> {},
               ret |-> NoProxy, outcome |-> ""]
Threads == {"t1", "t2"}
\* No side-by-side run.
NoConc == [locked |-> FALSE, th |-> [t \in {} |-> IdleThread]]

\* No call: the caller has taken what the last call gave it.
Idle == [op |-> "idle", args |-> <<>>, outcome |-> "ok", res |-> NoRes,
         ret |-> NoProxy, reqs |-> <<>>, fetches |-> <<>>, cursor |-> FALSE,
         data |-> <<>>, val |-> <<>>, again |-> FALSE]

\* The identities of the objects of a kind still referenced: by the cache or
\* by the caller.
Live(cache, kind) ==
    Ids(cache) \cup {p.id : p \in {q \in {held, call.ret} : q.kind = kind}}

(***************************************************************************)
(* Collections.                                                            *)
(***************************************************************************)
NamesOf(cols) == [i \in 1..Len(cols) |-> cols[i].name]

\* A listing in the order of the server, user and system collections mixed.
collections_unsorted(cols, st) ==
    LET res == Response("GET", "/_api/collection", "", st)
    IN  IF st # 200
        THEN [ok |-> FALSE, err |-> "CollectionListError", res |-> res,
              user |-> <<>>, system |-> <<>>, all |-> <<>>]
        ELSE [ok |-> TRUE, err |-> "", res |-> res,
              user |-> NamesOf(SelectSeq(cols, LAMBDA c : ~c.isSystem)),
              system |-> NamesOf(SelectSeq(cols, LAMBDA c : c.isSystem)),
              all |-> NamesOf(cols)]

\* Database.collections: cols is the list the server holds, st its status.
collections(cols, st) ==
    LET res == Response("GET", "/_api/collection", "", st)
        user_collections == NamesOf(SelectSeq(cols, LAMBDA c : ~c.isSystem))
        system_collections == NamesOf(SelectSeq(cols, LAMBDA c : c.isSystem))
    IN  IF st # 200
        THEN [ok |-> FALSE, err |-> "CollectionListError", res |-> res,
              user |-> <<>>, system |-> <<>>, all |-> <<>>]
        ELSE [ok |-> TRUE, err |-> "", res |-> res,
              user |-> user_collections, system |-> system_collections,
              all |-> user_collections \o system_collections]

\* A difference that takes every listed name for new.
AllListed(real_cols, cached_cols) == real_cols

\* A first loop that finds no cached name stale.
StaleNone(cached_cols, real_cols) == {}

\* cached_cols - real_cols and real_cols - cached_cols
StaleCols(cached_cols, real_cols) == cached_cols \ real_cols
NewCols(real_cols, cached_cols) == real_cols \ cached_cols

\* for col_name in cached_cols - real_cols: del self._collection_cache[col_name]
RECURSIVE DelCollections(_, _)
DelCollections(cache, stale) ==
    IF stale = {} THEN cache
    ELSE LET col_name == CHOOSE n \in stale : TRUE
         IN  DelCollections(Del(cache, col_name), stale \ {col_name})

\* An insertion loop that inserts nothing.
InsertNone(cache, new, used) == cache

\* for col_name in real_cols - cached_cols:
\*     self._collection_cache[col_name] = Collection(name=col_name, api=self._api)
RECURSIVE InsertCollections(_, _, _)
InsertCollections(cache, new, used) ==
    IF new = {} THEN cache
    ELSE LET col_name == CHOOSE n \in new : TRUE
             id == FreshId(used)
         IN  InsertCollections(Put(cache, col_name, Collection(col_name, id)),
                               new \ {col_name}, used \cup {id})

\* A reconciliation that builds every listed name a new proxy.
rebuild_collection_cache(cache, cols, st, used) ==
    LET listed == collections(cols, st)
        real_cols == SeqToSet(listed.all)
    IN  IF ~listed.ok
        THEN Raised(listed.err, listed.res, cache, <<listed.res>>)
        ELSE Result("ok", NoRes, NoProxy, InsertCollections(EmptyCache, real_cols, used),
                    <<listed.res>>, <<real_cols>>)

\* A reconciliation that empties the cache before it fetches the list.
update_collection_cache_clearing(cache, cols, st, used) ==
    LET listed == collections(cols, st)
        real_cols == SeqToSet(listed.all)
    IN  IF ~listed.ok
        THEN Raised(listed.err, listed.res, EmptyCache, <<listed.res>>)
        ELSE Result("ok", NoRes, NoProxy,
                    InsertCollections(DelCollections(cache, StaleCols(DOMAIN cache, real_cols)),
                                      NewCols(real_cols, DOMAIN cache), used),
                    <<listed.res>>, <<real_cols>>)

\* Database._update_collection_cache
update_collection_cache(cache, cols, st, used) ==
    LET listed == collections(cols, st)
        real_cols == SeqToSet(listed.all)
        cached_cols == DOMAIN cache
    IN  IF ~listed.ok
        THEN Raised(listed.err, listed.res, cache, <<listed.res>>)
        ELSE Result("ok", NoRes, NoProxy,
                    InsertCollections(DelCollections(cache, StaleCols(cached_cols, real_cols)),
                                      NewCols(real_cols, cached_cols), used),
                    <<listed.res>>, <<real_cols>>)

\* A lookup that reconciles once more when the name is still missing.
collection_retrying(cache, name, cols, st, used) ==
    IF ~name.isStr
    THEN Raised("TypeError", NoRes, cache, <<>>)
    ELSE IF name.v \in DOMAIN cache
    THEN Result("ok", NoRes, cache[name.v], cache, <<>>, <<>>)
    ELSE LET u == update_collection_cache(cache, cols, st, used)
             v == update_collection_cache(u.cache, cols, st, used \cup Ids(u.cache))
         IN  IF u.outcome # "ok" THEN u
             ELSE IF name.v \notin DOMAIN u.cache
             THEN [v EXCEPT !.outcome = "CollectionNotFoundError",
                            !.reqs = u.reqs \o @, !.fetches = u.fetches \o @]
             ELSE [u EXCEPT !.ret = u.cache[name.v]]

\* A lookup that takes whatever it is given for a name.
collection_unchecked(cache, name, cols, st, used) ==
    IF name.v \in DOMAIN cache
    THEN Result("ok", NoRes, cache[name.v], cache, <<>>, <<>>)
    ELSE LET u == update_collection_cache(cache, cols, st, used)
         IN  IF u.outcome # "ok" THEN u
             ELSE IF name.v \notin DOMAIN u.cache
             THEN [u EXCEPT !.outcome = "CollectionNotFoundError"]
             ELSE [u EXCEPT !.ret = u.cache[name.v]]

\* Database.collection
collection(cache, name, cols, st, used) ==
    IF ~name.isStr
    THEN Raised("TypeError", NoRes, cache, <<>>)
    ELSE IF name.v \in DOMAIN cache
    THEN Result("ok", NoRes, cache[name.v], cache, <<>>, <<>>)
    ELSE LET u == update_collection_cache(cache, cols, st, used)
         IN  IF u.outcome # "ok" THEN u
             ELSE IF name.v \notin DOMAIN u.cache
             THEN [u EXCEPT !.outcome = "CollectionNotFoundError"]
             ELSE [u EXCEPT !.ret = u.cache[name.v]]

\* A step on collections ends: path is the lists the server went through.
EndCollectionStep(rec, cache, path) ==
    /\ call' = rec
    /\ collection_cache' = cache
    /\ srvCols' = path[Len(path)]
    /\ \/ held' = IF held.kind = "Collection" /\ Changed(path) THEN NoProxy ELSE held
       \/ /\ rec.op = "collection" /\ rec.outcome = "ok"
          /\ held.kind # "Collection" \/ Changed(path)
          /\ held' = rec.ret
    /\ \/ removed' = IF removed.kind = "Collection" /\ removed.name \in CreatedCols(path)
                     THEN NoProxy ELSE removed
       \/ /\ rec.op = "remove_collection" /\ rec.outcome = "ok"
          /\ rec.args[1] \notin CreatedCols(SubSeq(path, 2, Len(path)))
          /\ removed' = [kind |-> "Collection", name |-> rec.args[1], id |-> 0]
    /\ seen' = IF rec.fetches = <<>> THEN seen
               ELSE [seen EXCEPT !.Collection = rec.fetches[Len(rec.fetches)]]
    /\ UNCHANGED <<world, srvGraphs, srvFuncs, graph_cache, conc>>

Call_collections ==
    /\ call.op = "idle"
    /\ \E st \in world.codes :
        LET listed == collections(srvCols, st)
            r == IF listed.ok
                 THEN Result("ok", NoRes, NoProxy, collection_cache, <<listed.res>>, <<>>)
                 ELSE Raised(listed.err, listed.res, collection_cache, <<listed.res>>)
        IN  EndCollectionStep(
                [CallRecord("collections", <<>>, r, FALSE) EXCEPT
                    !.val = IF listed.ok
                            THEN [user |-> listed.user, system |-> listed.system,
                                  all |-> listed.all]
                            ELSE <<>>],
                collection_cache, <<srvCols>>)

Call_collection(name) ==
    /\ call.op = "idle"
    /\ \E st \in world.codes :
        LET r == collection(collection_cache, name, srvCols, st,
                            Live(collection_cache, "Collection"))
        IN  /\ r.reqs = <<>> => st = 200
            /\ EndCollectionStep(
                   [CallRecord("collection", <<name>>, r, FALSE) EXCEPT
                       !.again = held.kind = "Collection" /\ held.name = name.v],
                   r.cache, <<srvCols>>)

\* Database.add_collection: the create request, a reconciliation, the lookup.
Call_add_collection(name, is_system) ==
    /\ call.op = "idle"
    /\ \E st1 \in Answers(name \notin ColNamesOf(srvCols) /\ (IsSystemName(name) => is_system)) :
        LET post == Response("POST", "/_api/collection", "", st1)
            cols1 == IF st1 \in Done2xx THEN SrvAddCol(srvCols, name) ELSE srvCols
            used == Live(collection_cache, "Collection")
        IN  IF st1 # 200
            THEN EndCollectionStep(
                     CallRecord("add_collection", <<name>>,
                                Raised("CollectionAddError", post, collection_cache, <<post>>),
                                FALSE),
                     collection_cache, <<srvCols, cols1>>)
            ELSE \E cols2 \in DriftCols(cols1), st2 \in world.codes :
                LET u == update_collection_cache(collection_cache, cols2, st2, used)
                IN  IF u.outcome # "ok"
                    THEN EndCollectionStep(
                             CallRecord("add_collection", <<name>>,
                                        [u EXCEPT !.reqs = <<post>> \o @], FALSE),
                             u.cache, <<srvCols, cols1, cols2>>)
                    ELSE \E cols3 \in DriftCols(cols2), st3 \in world.codes :
                        LET r == collection(u.cache, Str(name), cols3, st3,
                                            used \cup Ids(u.cache))
                        IN  /\ r.reqs = <<>> => cols3 = cols2 /\ st3 = 200
                            /\ EndCollectionStep(
                                CallRecord("add_collection", <<name>>,
                                           [r EXCEPT !.reqs = <<post>> \o u.reqs \o @,
                                                     !.fetches = u.fetches \o @], FALSE),
                                r.cache,
                                <<srvCols, cols1, cols2>>
                                    \o (IF r.reqs = <<>> THEN <<>> ELSE <<cols3>>))

\* Database.remove_collection: the delete request, then a reconciliation.
Call_remove_collection(name) ==
    /\ call.op = "idle"
    /\ \E st1 \in Answers(name \in ColNamesOf(srvCols)) :
        LET delete == Response("DELETE", "/_api/collection/{}", name, st1)
            cols1 == IF st1 \in Done2xx THEN SrvRemoveCol(srvCols, name) ELSE srvCols
        IN  IF st1 # 200
            THEN EndCollectionStep(
                     CallRecord("remove_collection", <<name>>,
                                Raised("CollectionRemoveError", delete, collection_cache,
                                       <<delete>>), FALSE),
                     collection_cache, <<srvCols, cols1>>)
            ELSE \E cols2 \in DriftCols(cols1), st2 \in world.codes :
                LET u == update_collection_cache(collection_cache, cols2, st2,
                                                 Live(collection_cache, "Collection"))
                IN  EndCollectionStep(
                        CallRecord("remove_collection", <<name>>,
                                   [u EXCEPT !.reqs = <<delete>> \o @], FALSE),
                        u.cache, <<srvCols, cols1, cols2>>)

\* Database.rename_collection: the rename request, then a reconciliation.
\* A rename that moves the cached proxy to the new key instead of reconciling.
Call_rename_collection_moving(name, new_name) ==
    /\ call.op = "idle"
    /\ \E st1 \in Answers(name \in ColNamesOf(srvCols) /\ new_name \notin ColNamesOf(srvCols)) :
        LET put == Response("PUT", "/_api/collection/{}/rename", name, st1)
            cols1 == IF st1 \in Done2xx THEN SrvRenameCol(srvCols, name, new_name)
                                        ELSE srvCols
            moved == IF name \in DOMAIN collection_cache
                     THEN Put(Del(collection_cache, name), new_name,
                              [collection_cache[name] EXCEPT !.name = new_name])
                     ELSE collection_cache
        IN  IF st1 # 200
            THEN EndCollectionStep(
                     CallRecord("rename_collection", <<name, new_name>>,
                                Raised("CollectionRenameError", put, collection_cache,
                                       <<put>>), FALSE),
                     collection_cache, <<srvCols, cols1>>)
            ELSE EndCollectionStep(
                     CallRecord("rename_collection", <<name, new_name>>,
                                Result("ok", NoRes, NoProxy, moved, <<put>>, <<>>), FALSE),
                     moved, <<srvCols, cols1>>)

Call_rename_collection(name, new_name) ==
    /\ call.op = "idle"
    /\ \E st1 \in Answers(name \in ColNamesOf(srvCols) /\ new_name \notin ColNamesOf(srvCols)) :
        LET put == Response("PUT", "/_api/collection/{}/rename", name, st1)
            cols1 == IF st1 \in Done2xx THEN SrvRenameCol(srvCols, name, new_name)
                                        ELSE srvCols
        IN  IF st1 # 200
            THEN EndCollectionStep(
                     CallRecord("rename_collection", <<name, new_name>>,
                                Raised("CollectionRenameError", put, collection_cache,
                                       <<put>>), FALSE),
                     collection_cache, <<srvCols, cols1>>)
            ELSE \E cols2 \in DriftCols(cols1), st2 \in world.codes :
                LET u == update_collection_cache(collection_cache, cols2, st2,
                                                 Live(collection_cache, "Collection"))
                IN  EndCollectionStep(
                        CallRecord("rename_collection", <<name, new_name>>,
                                   [u EXCEPT !.reqs = <<put>> \o @], FALSE),
                        u.cache, <<srvCols, cols1, cols2>>)

(***************************************************************************)
(* Graphs.                                                                 *)
(***************************************************************************)
\* A graph list that takes 200 alone for success.
graphs_only_200(gs, st) ==
    LET res == Response("GET", "/_api/gharial", "", st)
    IN  IF st # 200
        THEN [ok |-> FALSE, err |-> "GraphListError", res |-> res, keys |-> <<>>]
        ELSE [ok |-> TRUE, err |-> "", res |-> res, keys |-> gs]

\* Database.graphs: gs is the list the server holds, st its status.
graphs(gs, st) ==
    LET res == Response("GET", "/_api/gharial", "", st)
    IN  IF st \notin {200, 202}
        THEN [ok |-> FALSE, err |-> "GraphListError", res |-> res, keys |-> <<>>]
        ELSE [ok |-> TRUE, err |-> "", res |-> res, keys |-> gs]

\* A first loop that deletes no graph.
KeepGraphs(cache, stale) == cache

\* for graph_name in cached_graphs - real_graphs: del self._graph_cache[graph_name]
RECURSIVE DelGraphs(_, _)
DelGraphs(cache, stale) ==
    IF stale = {} THEN cache
    ELSE LET graph_name == CHOOSE n \in stale : TRUE
         IN  DelGraphs(Del(cache, graph_name), stale \ {graph_name})

\* for graph_name in real_graphs - cached_graphs:
\*     self._graph_cache[graph_name] = Graph(name=graph_name, api=self._api)
RECURSIVE InsertGraphs(_, _, _)
InsertGraphs(cache, new, used) ==
    IF new = {} THEN cache
    ELSE LET graph_name == CHOOSE n \in new : TRUE
             id == FreshId(used)
         IN  InsertGraphs(Put(cache, graph_name, Graph(graph_name, id)),
                          new \ {graph_name}, used \cup {id})

\* A reconciliation that builds every listed graph a new proxy.
rebuild_graph_cache(cache, gs, st, used) ==
    LET listed == graphs(gs, st)
        real_graphs == SeqToSet(listed.keys)
    IN  IF ~listed.ok
        THEN Raised(listed.err, listed.res, cache, <<listed.res>>)
        ELSE Result("ok", NoRes, NoProxy, InsertGraphs(EmptyCache, real_graphs, used),
                    <<listed.res>>, <<real_graphs>>)

\* Database._update_graph_cache
update_graph_cache(cache, gs, st, used) ==
    LET listed == graphs(gs, st)
        real_graphs == SeqToSet(listed.keys)
        cached_graphs == DOMAIN cache
    IN  IF ~listed.ok
        THEN Raised(listed.err, listed.res, cache, <<listed.res>>)
        ELSE Result("ok", NoRes, NoProxy,
                    InsertGraphs(DelGraphs(cache, cached_graphs \ real_graphs),
                                 real_graphs \ cached_graphs, used),
                    <<listed.res>>, <<real_graphs>>)

\* A lookup that reconciles whether or not the cache holds the name.
graph_reconciling(cache, name, gs, st, used) ==
    IF ~name.isStr
    THEN Raised("TypeError", NoRes, cache, <<>>)
    ELSE LET u == update_graph_cache(cache, gs, st, used)
         IN  IF u.outcome # "ok" THEN u
             ELSE IF name.v \notin DOMAIN u.cache
             THEN [u EXCEPT !.outcome = "GraphNotFoundError"]
             ELSE [u EXCEPT !.ret = u.cache[name.v]]

\* Database.graph
graph(cache, name, gs, st, used) ==
    IF ~name.isStr
    THEN Raised("TypeError", NoRes, cache, <<>>)
    ELSE IF name.v \in DOMAIN cache
    THEN Result("ok", NoRes, cache[name.v], cache, <<>>, <<>>)
    ELSE LET u == update_graph_cache(cache, gs, st, used)
         IN  IF u.outcome # "ok" THEN u
             ELSE IF name.v \notin DOMAIN u.cache
             THEN [u EXCEPT !.outcome = "GraphNotFoundError"]
             ELSE [u EXCEPT !.ret = u.cache[name.v]]

\* A step on graphs ends: path is the lists the server went through.
EndGraphStep(rec, cache, path) ==
    /\ call' = rec
    /\ graph_cache' = cache
    /\ srvGraphs' = path[Len(path)]
    /\ \/ held' = IF held.kind = "Graph" /\ Changed(path) THEN NoProxy ELSE held
       \/ /\ rec.op = "graph" /\ rec.outcome = "ok"
          /\ held.kind # "Graph" \/ Changed(path)
          /\ held' = rec.ret
    /\ \/ removed' = IF removed.kind = "Graph" /\ removed.name \in CreatedGraphs(path)
                     THEN NoProxy ELSE removed
       \/ /\ rec.op = "remove_graph" /\ rec.outcome = "ok"
          /\ rec.args[1] \notin CreatedGraphs(SubSeq(path, 2, Len(path)))
          /\ removed' = [kind |-> "Graph", name |-> rec.args[1], id |-> 0]
    /\ seen' = IF rec.fetches = <<>> THEN seen
               ELSE [seen EXCEPT !.Graph = rec.fetches[Len(rec.fetches)]]
    /\ UNCHANGED <<world, srvCols, srvFuncs, collection_cache, conc>>

Call_graphs ==
    /\ call.op = "idle"
    /\ \E st \in world.codes :
        LET listed == graphs(srvGraphs, st)
            r == IF listed.ok
                 THEN Result("ok", NoRes, NoProxy, graph_cache, <<listed.res>>, <<>>)
                 ELSE Raised(listed.err, listed.res, graph_cache, <<listed.res>>)
        IN  EndGraphStep(CallRecord("graphs", <<>>, r, FALSE), graph_cache, <<srvGraphs>>)

Call_graph(name) ==
    /\ call.op = "idle"
    /\ \E st \in world.codes :
        LET r == graph(graph_cache, name, srvGraphs, st, Live(graph_cache, "Graph"))
        IN  /\ r.reqs = <<>> => st = 200
            /\ EndGraphStep(
                   [CallRecord("graph", <<name>>, r, FALSE) EXCEPT
                       !.again = held.kind = "Graph" /\ held.name = name.v],
                   r.cache, <<srvGraphs>>)

\* Database.add_graph: the create request, a reconciliation, the lookup.
Call_add_graph(name) ==
    /\ call.op = "idle"
    /\ \E st1 \in Answers(name \notin SeqToSet(srvGraphs)) :
        LET post == Response("POST", "/_api/gharial", "", st1)
            gs1 == IF st1 \in Done2xx THEN SrvAddGraph(srvGraphs, name) ELSE srvGraphs
            used == Live(graph_cache, "Graph")
        IN  IF st1 # 201
            THEN EndGraphStep(
                     CallRecord("add_graph", <<name>>,
                                Raised("GraphAddError", post, graph_cache, <<post>>), FALSE),
                     graph_cache, <<srvGraphs, gs1>>)
            ELSE \E gs2 \in DriftGraphs(gs1), st2 \in world.codes :
                LET u == update_graph_cache(graph_cache, gs2, st2, used)
                IN  IF u.outcome # "ok"
                    THEN EndGraphStep(
                             CallRecord("add_graph", <<name>>,
                                        [u EXCEPT !.reqs = <<post>> \o @], FALSE),
                             u.cache, <<srvGraphs, gs1, gs2>>)
                    ELSE \E gs3 \in DriftGraphs(gs2), st3 \in world.codes :
                        LET r == graph(u.cache, Str(name), gs3, st3, used \cup Ids(u.cache))
                        IN  /\ r.reqs = <<>> => gs3 = gs2 /\ st3 = 200
                            /\ EndGraphStep(
                                CallRecord("add_graph", <<name>>,
                                           [r EXCEPT !.reqs = <<post>> \o u.reqs \o @,
                                                     !.fetches = u.fetches \o @], FALSE),
                                r.cache,
                                <<srvGraphs, gs1, gs2>>
                                    \o (IF r.reqs = <<>> THEN <<>> ELSE <<gs3>>))

\* Database.remove_graph: the delete request, then a reconciliation.
\* A remove that reconciles before it looks at the status of its request.
Call_remove_graph_reconciling_first(name) ==
    /\ call.op = "idle"
    /\ \E st1 \in Answers(name \in SeqToSet(srvGraphs)) :
        LET delete == Response("DELETE", "/_api/gharial/{}", name, st1)
            gs1 == IF st1 \in Done2xx THEN SrvRemoveGraph(srvGraphs, name) ELSE srvGraphs
        IN  \E gs2 \in DriftGraphs(gs1), st2 \in world.codes :
                LET u == update_graph_cache(graph_cache, gs2, st2, Live(graph_cache, "Graph"))
                    r == IF u.outcome = "ok" /\ st1 # 200
                         THEN [u EXCEPT !.outcome = "GraphRemoveError", !.res = delete]
                         ELSE u
                IN  EndGraphStep(
                        CallRecord("remove_graph", <<name>>,
                                   [r EXCEPT !.reqs = <<delete>> \o @], FALSE),
                        u.cache, <<srvGraphs, gs1, gs2>>)

Call_remove_graph(name) ==
    /\ call.op = "idle"
    /\ \E st1 \in Answers(name \in SeqToSet(srvGraphs)) :
        LET delete == Response("DELETE", "/_api/gharial/{}", name, st1)
            gs1 == IF st1 \in Done2xx THEN SrvRemoveGraph(srvGraphs, name) ELSE srvGraphs
        IN  IF st1 # 200
            THEN EndGraphStep(
                     CallRecord("remove_graph", <<name>>,
                                Raised("GraphRemoveError", delete, graph_cache, <<delete>>),
                                FALSE),
                     graph_cache, <<srvGraphs, gs1>>)
            ELSE \E gs2 \in DriftGraphs(gs1), st2 \in world.codes :
                LET u == update_graph_cache(graph_cache, gs2, st2, Live(graph_cache, "Graph"))
                IN  EndGraphStep(
                        CallRecord("remove_graph", <<name>>,
                                   [u EXCEPT !.reqs = <<delete>> \o @], FALSE),
                        u.cache, <<srvGraphs, gs1, gs2>>)

(***************************************************************************)
(* Properties, queries, transactions: one request each, no cache.          *)
(***************************************************************************)
Dict(k, v) == [x \in {k} |-> v]

\* Database.properties
properties(st) ==
    LET res == Response("GET", "/_api/database/current", "", st)
    IN  IF st # 200
        THEN PlainRecord("properties", <<>>, "DatabasePropertyError", res, <<res>>,
                         <<>>, <<>>, FALSE)
        ELSE PlainRecord("properties", <<>>, "ok", NoRes, <<res>>, <<>>,
                         <<"result">>, FALSE)

\* An explanation asked of the cursor endpoint.
explain_by_cursor(query, all_plans, max_plans, optimizer_rules, st) ==
    LET data == [query |-> query, options |-> Dict("allPlans", all_plans)]
        res == Response("POST", "/_api/cursor", "", st)
        args == <<query, all_plans, max_plans, optimizer_rules>>
    IN  IF st # 201
        THEN PlainRecord("explain_query", args, "QueryExplainError", res, <<res>>,
                         data, <<>>, FALSE)
        ELSE PlainRecord("explain_query", args, "ok", NoRes, <<res>>, data,
                         <<"cursor">>, TRUE)

\* Database.explain_query. The server answers a request for all plans with
\* "plans", any other with "plan".
explain_query(query, all_plans, max_plans, optimizer_rules, st) ==
    LET options0 == Dict("allPlans", all_plans)
        options1 == IF max_plans.some
                    THEN Put(options0, "maxNumberOfPlans", max_plans.v) ELSE options0
        options == IF optimizer_rules.some
                   THEN Put(options1, "optimizer", Dict("rules", optimizer_rules.v))
                   ELSE options1
        data == [query |-> query, options |-> options]
        res == Response("POST", "/_api/explain", "", st)
        args == <<query, all_plans, max_plans, optimizer_rules>>
    IN  IF st # 200
        THEN PlainRecord("explain_query", args, "QueryExplainError", res, <<res>>,
                         data, <<>>, FALSE)
        ELSE PlainRecord("explain_query", args, "ok", NoRes, <<res>>, data,
                         IF options["allPlans"] THEN <<"plans">> ELSE <<"plan">>, FALSE)

\* Database.validate_query
validate_query(query, st) ==
    LET res == Response("POST", "/_api/query", "", st)
        data == [query |-> query]
    IN  IF st # 200
        THEN PlainRecord("validate_query", <<query>>, "QueryValidateError", res, <<res>>,
                         data, <<>>, FALSE)
        ELSE PlainRecord("validate_query", <<query>>, "ok", NoRes, <<res>>, data,
                         <<>>, FALSE)

\* A query request that leaves out whatever is false, zero or empty.
execute_query_truthy(query, count, batch_size, ttl, bind_vars, full_count, max_plans, optimizer_rules, st) ==
    LET options0 == <<>>
        options1 == IF full_count.some /\ full_count.v
                    THEN Put(options0, "fullCount", full_count.v) ELSE options0
        options2 == IF max_plans.some /\ max_plans.v # 0
                    THEN Put(options1, "maxNumberOfPlans", max_plans.v) ELSE options1
        options == IF optimizer_rules.some
                   THEN Put(options2, "optimizer", Dict("rules", optimizer_rules.v))
                   ELSE options2
        data0 == [query |-> query, count |-> count]
        data1 == IF batch_size.some /\ batch_size.v # 0
                 THEN Put(data0, "batchSize", batch_size.v) ELSE data0
        data2 == IF ttl.some THEN Put(data1, "ttl", ttl.v) ELSE data1
        data3 == IF bind_vars.some THEN Put(data2, "bindVars", bind_vars.v) ELSE data2
        data == IF DOMAIN options # {} THEN Put(data3, "options", options) ELSE data3
        res == Response("POST", "/_api/cursor", "", st)
        args == <<query, count, batch_size, ttl, bind_vars, full_count, max_plans,
                  optimizer_rules>>
    IN  IF st # 201
        THEN PlainRecord("execute_query", args, "QueryExecuteError", res, <<res>>,
                         data, <<>>, FALSE)
        ELSE PlainRecord("execute_query", args, "ok", NoRes, <<res>>, data,
                         <<"cursor">>, TRUE)

\* Database.execute_query: on 201 it returns self.cursor(res), a new cursor.
execute_query(query, count, batch_size, ttl, bind_vars, full_count, max_plans, optimizer_rules, st) ==
    LET options0 == <<>>
        options1 == IF full_count.some
                    THEN Put(options0, "fullCount", full_count.v) ELSE options0
        options2 == IF max_plans.some
                    THEN Put(options1, "maxNumberOfPlans", max_plans.v) ELSE options1
        options == IF optimizer_rules.some
                   THEN Put(options2, "optimizer", Dict("rules", optimizer_rules.v))
                   ELSE options2
        data0 == [query |-> query, count |-> count]
        data1 == IF batch_size.some THEN Put(data0, "batchSize", batch_size.v) ELSE data0
        data2 == IF ttl.some THEN Put(data1, "ttl", ttl.v) ELSE data1
        data3 == IF bind_vars.some THEN Put(data2, "bindVars", bind_vars.v) ELSE data2
        data == IF DOMAIN options # {} THEN Put(data3, "options", options) ELSE data3
        res == Response("POST", "/_api/cursor", "", st)
        args == <<query, count, batch_size, ttl, bind_vars, full_count, max_plans,
                  optimizer_rules>>
    IN  IF st # 201
        THEN PlainRecord("execute_query", args, "QueryExecuteError", res, <<res>>,
                         data, <<>>, FALSE)
        ELSE PlainRecord("execute_query", args, "ok", NoRes, <<res>>, data,
                         <<"cursor">>, TRUE)

\* What the server computes for an action script.
ActionResult(action) == IF action = "return 1 + 1" THEN 2 ELSE 0

\* A transaction that is sent once more when the server refuses it.
execute_transaction_retrying(action, read_collections, write_collections, wait_for_sync, lock_timeout, st) ==
    LET res == Response("POST", "/_api/transaction", "", st)
        args == <<action, read_collections, write_collections, wait_for_sync,
                  lock_timeout>>
    IN  IF st # 200
        THEN PlainRecord("execute_transaction", args, "TransactionExecuteError", res,
                         <<res, res>>, <<>>, <<>>, FALSE)
        ELSE PlainRecord("execute_transaction", args, "ok", NoRes, <<res>>, <<>>,
                         <<ActionResult(action)>>, FALSE)

\* Database.execute_transaction
execute_transaction(action, read_collections, write_collections, wait_for_sync, lock_timeout, st) ==
    LET collections0 == <<>>
        collections1 == IF read_collections.some
                        THEN Put(collections0, "read", read_collections.v)
                        ELSE collections0
        collections2 == IF write_collections.some
                        THEN Put(collections1, "write", write_collections.v)
                        ELSE collections1
        data == [collections |-> collections2, action |-> action]
        params == [waitForSync |-> wait_for_sync, lockTimeout |-> lock_timeout]
        res == Response("POST", "/_api/transaction", "", st)
        args == <<action, read_collections, write_collections, wait_for_sync,
                  lock_timeout>>
    IN  IF st # 200
        THEN PlainRecord("execute_transaction", args, "TransactionExecuteError", res,
                         <<res>>, [data |-> data, params |-> params], <<>>, FALSE)
        ELSE PlainRecord("execute_transaction", args, "ok", NoRes, <<res>>,
                         [data |-> data, params |-> params],
                         <<ActionResult(action)>>, FALSE)

\* A call that ends with both caches emptied.
EndPlainStepForgetting(rec, funcs) ==
    /\ call' = rec
    /\ srvFuncs' = funcs
    /\ collection_cache' = EmptyCache
    /\ graph_cache' = EmptyCache
    /\ UNCHANGED <<world, srvCols, srvGraphs, held, removed, conc, seen>>

\* A call that touches neither a cache nor the server's lists ends.
EndPlainStep(rec, funcs) ==
    /\ call' = rec
    /\ srvFuncs' = funcs
    /\ UNCHANGED <<world, srvCols, srvGraphs, collection_cache, graph_cache, held, removed,
                   conc, seen>>

\* The parameters callers pass.
Queries == {"FOR d IN a RETURN d"}
MaxPlans == {None, Some(2)}
OptimizerRules == {None, Some(<<"-all">>)}
Actions == {"return 1 + 1"}

Call_properties ==
    /\ call.op = "idle"
    /\ \E st \in world.codes : EndPlainStep(properties(st), srvFuncs)

Call_explain_query ==
    /\ call.op = "idle"
    /\ \E query \in Queries, all_plans \in BOOLEAN, max_plans \in MaxPlans,
          optimizer_rules \in OptimizerRules, st \in world.codes :
        EndPlainStep(explain_query(query, all_plans, max_plans, optimizer_rules, st),
                     srvFuncs)

Call_validate_query ==
    /\ call.op = "idle"
    /\ \E query \in Queries, st \in world.codes :
        EndPlainStep(validate_query(query, st), srvFuncs)

Call_execute_query ==
    /\ call.op = "idle"
    /\ \E query \in Queries, count \in BOOLEAN, batch_size \in {None, Some(2)},
          full_count \in {None, Some(FALSE)}, st \in world.codes :
        EndPlainStep(execute_query(query, count, batch_size, None, None, full_count,
                                   None, None, st), srvFuncs)

Call_execute_transaction ==
    /\ call.op = "idle"
    /\ \E action \in Actions, read_collections \in {None, Some(<<"a">>)},
          lock_timeout \in {None, Some(0)}, st \in world.codes :
        EndPlainStep(execute_transaction(action, read_collections, None, FALSE,
                                         lock_timeout, st), srvFuncs)

(***************************************************************************)
(* AQL functions. A name is its namespaces and its own name in order:      *)
(* <<"ns", "f">> is ns::f, and <<"ns">> is the prefix ns::                 *)
(***************************************************************************)
FuncCodes == {"c1", "c2"}
FuncNamesOf(fs) == {fs[i].name : i \in 1..Len(fs)}
\* "/_api/aqlfunction/{}".format(name): the name as it is written, ns::f
RECURSIVE QName(_)
QName(n) == IF Len(n) = 1 THEN n[1] ELSE n[1] \o "::" \o QName(Tail(n))
HasPrefix(n, prefix) == Len(prefix) <= Len(n) /\ SubSeq(n, 1, Len(prefix)) = prefix

\* The server registers a function, in place of one of the same name.
SrvAddFunc(fs, n, code) ==
    IF n \in FuncNamesOf(fs)
    THEN [i \in 1..Len(fs) |-> IF fs[i].name = n THEN [name |-> n, code |-> code]
                                                 ELSE fs[i]]
    ELSE Append(fs, [name |-> n, code |-> code])
\* The server removes the function of that name, or all those of that group.
SrvRemoveFunc(fs, n, group) ==
    SelectSeq(fs, LAMBDA f : ~(IF group THEN HasPrefix(f.name, n) ELSE f.name = n))

DriftFuncs(fs) ==
    {fs} \cup {SrvAddFunc(fs, n, c) : n \in world.funcs \ FuncNamesOf(fs), c \in FuncCodes}
         \cup {SrvRemoveFunc(fs, n, FALSE) : n \in FuncNamesOf(fs)}

\* A registry read that returns no function.
aql_functions_empty(fs, st) ==
    LET res == Response("GET", "/_api/aqlfunction", "", st)
    IN  IF st # 200
        THEN [ok |-> FALSE, err |-> "AQLFunctionListError", res |-> res, val |-> <<>>]
        ELSE [ok |-> TRUE, err |-> "", res |-> res, val |-> <<>>]

\* Database.aql_functions: fs is the registry the server holds, st its status.
aql_functions(fs, st) ==
    LET res == Response("GET", "/_api/aqlfunction", "", st)
    IN  IF st # 200
        THEN [ok |-> FALSE, err |-> "AQLFunctionListError", res |-> res, val |-> <<>>]
        ELSE [ok |-> TRUE, err |-> "", res |-> res,
              val |-> [n \in FuncNamesOf(fs) |->
                          (CHOOSE f \in SeqToSet(fs) : f.name = n).code]]

Call_aql_functions ==
    /\ call.op = "idle"
    /\ \E st \in world.codes :
        LET listed == aql_functions(srvFuncs, st)
        IN  EndPlainStep(
                PlainRecord("aql_functions", <<>>, IF listed.ok THEN "ok" ELSE listed.err,
                            IF listed.ok THEN NoRes ELSE listed.res, <<listed.res>>,
                            <<>>, listed.val, FALSE),
                srvFuncs)

\* Database.add_aql_function: the request, then the registry fetched anew.
Call_add_aql_function(name, code) ==
    /\ call.op = "idle"
    /\ \E st1 \in world.codes :
        LET data == [name |-> name, code |-> code]
            post == Response("POST", "/_api/aqlfunction", "", st1)
            fs1 == IF st1 \in Done2xx THEN SrvAddFunc(srvFuncs, name, code) ELSE srvFuncs
        IN  IF st1 \notin {200, 201}
            THEN EndPlainStep(
                     PlainRecord("add_aql_function", <<name, code>>, "AQLFunctionAddError",
                                 post, <<post>>, data, <<>>, FALSE), fs1)
            ELSE \E fs2 \in DriftFuncs(fs1), st2 \in world.codes :
                LET listed == aql_functions(fs2, st2)
                IN  EndPlainStep(
                        PlainRecord("add_aql_function", <<name, code>>,
                                    IF listed.ok THEN "ok" ELSE listed.err,
                                    IF listed.ok THEN NoRes ELSE listed.res,
                                    <<post, listed.res>>, data, listed.val, FALSE), fs2)

\* A removal that never sends the group flag.
Call_remove_aql_function_ungrouped(name, group) ==
    /\ call.op = "idle"
    /\ \E st1 \in Answers(name \in FuncNamesOf(srvFuncs)) :
        LET params == <<>>
            delete == Response("DELETE", "/_api/aqlfunction/{}", QName(name), st1)
            fs1 == IF st1 \in Done2xx THEN SrvRemoveFunc(srvFuncs, name, FALSE)
                                      ELSE srvFuncs
        IN  IF st1 # 200
            THEN EndPlainStep(
                     PlainRecord("remove_aql_function", <<name, group>>,
                                 "AQLFunctionRemoveError", delete, <<delete>>, params,
                                 <<>>, FALSE), fs1)
            ELSE \E st2 \in world.codes :
                LET listed == aql_functions(fs1, st2)
                IN  EndPlainStep(
                        PlainRecord("remove_aql_function", <<name, group>>,
                                    IF listed.ok THEN "ok" ELSE listed.err,
                                    IF listed.ok THEN NoRes ELSE listed.res,
                                    <<delete, listed.res>>, params, listed.val, FALSE),
                        fs1)

\* Database.remove_aql_function: the request, then the registry fetched anew.
Call_remove_aql_function(name, group) ==
    /\ call.op = "idle"
    /\ \E st1 \in Answers((group.some /\ group.v) \/ name \in FuncNamesOf(srvFuncs)) :
        LET params == IF group.some THEN Dict("group", group.v) ELSE <<>>
            delete == Response("DELETE", "/_api/aqlfunction/{}", QName(name), st1)
            fs1 == IF st1 \in Done2xx
                   THEN SrvRemoveFunc(srvFuncs, name, group.some /\ group.v)
                   ELSE srvFuncs
        IN  IF st1 # 200
            THEN EndPlainStep(
                     PlainRecord("remove_aql_function", <<name, group>>,
                                 "AQLFunctionRemoveError", delete, <<delete>>, params,
                                 <<>>, FALSE), fs1)
            ELSE \E fs2 \in DriftFuncs(fs1), st2 \in world.codes :
                LET listed == aql_functions(fs2, st2)
                IN  EndPlainStep(
                        PlainRecord("remove_aql_function", <<name, group>>,
                                    IF listed.ok THEN "ok" ELSE listed.err,
                                    IF listed.ok THEN NoRes ELSE listed.res,
                                    <<delete, listed.res>>, params, listed.val, FALSE),
                        fs2)

(***************************************************************************)
(* Out-of-band changes of the server, between two facade calls.            *)
(***************************************************************************)
EnvChangeCols ==
    /\ call.op = "idle"
    /\ \E cols \in DriftCols(srvCols) \ {srvCols} :
        EndCollectionStep(Idle, collection_cache, <<srvCols, cols>>)

EnvChangeFuncs ==
    /\ call.op = "idle"
    /\ \E fs \in DriftFuncs(srvFuncs) \ {srvFuncs} : EndPlainStep(Idle, fs)

EnvChangeGraphs ==
    /\ call.op = "idle"
    /\ \E gs \in DriftGraphs(srvGraphs) \ {srvGraphs} :
        EndGraphStep(Idle, graph_cache, <<srvGraphs, gs>>)

(***************************************************************************)
(* The facade after __init__, before a server that holds nothing yet.      *)
(***************************************************************************)
NoneSeen == [Collection |-> {}, Graph |-> {}]
Start(w, cols, gs) ==
    /\ world = w
    /\ srvCols = cols
    /\ srvGraphs = gs
    /\ srvFuncs = <<>>
    /\ collection_cache = EmptyCache
    /\ graph_cache = EmptyCache
    /\ call = Idle
    /\ held = NoProxy
    /\ removed = NoProxy
    /\ conc = NoConc
    /\ seen = NoneSeen

\* In one run names are created in one part of the server only: collections
\* "a" and "_b" beside a graph "g", or graphs "g" and "h" beside a collection
\* "a", or the functions ns::f and other::h beside a collection "a" and a
\* graph "g". What is beside can be removed out of band and stays away.
Init ==
    \/ Start(World({"a", "_b"}, {}, {}, StatusCodes), <<>>, <<"g">>)
    \/ Start(World({}, {"g", "h"}, {}, StatusCodes), SrvAddCol(<<>>, "a"), <<>>)
    \/ Start(World({}, {}, {<<"ns", "f">>, <<"other", "h">>}, StatusCodes),
             SrvAddCol(<<>>, "a"), <<"g">>)

\* Callers look up the names in play and the names the server holds.
LookupCols == LookupArgs(world.cols \cup ColNamesOf(srvCols))
LookupGraphs == LookupArgs(world.graphs \cup SeqToSet(srvGraphs))

\* The caller takes the result of the call (or its error).
Return ==
    /\ call.op # "idle"
    /\ call' = Idle
    /\ UNCHANGED <<world, srvCols, srvGraphs, srvFuncs, collection_cache, graph_cache,
                   held, removed, conc, seen>>

\* One caller at a time: a call starts when the last one has returned.
Next ==
    \/ Call_collections
    \/ \E name \in LookupCols : Call_collection(name)
    \/ \E name \in world.cols, is_system \in BOOLEAN : Call_add_collection(name, is_system)
    \/ \E name \in world.cols : Call_remove_collection(name)
    \/ \E name, new_name \in world.cols : Call_rename_collection(name, new_name)
    \/ Call_graphs
    \/ \E name \in LookupGraphs : Call_graph(name)
    \/ \E name \in world.graphs : Call_add_graph(name)
    \/ \E name \in world.graphs : Call_remove_graph(name)
    \/ Call_properties
    \/ Call_explain_query
    \/ Call_validate_query
    \/ Call_execute_query
    \/ Call_execute_transaction
    \/ Call_aql_functions
    \/ \E name \in world.funcs, code \in FuncCodes : Call_add_aql_function(name, code)
    \/ \E name \in world.funcs \cup {<<"ns">>}, group \in {None, Some(TRUE), Some(FALSE)} :
           Call_remove_aql_function(name, group)
    \/ EnvChangeCols
    \/ EnvChangeGraphs
    \/ EnvChangeFuncs
    \/ Return

Spec == Init /\ [][Next]_vars

(***************************************************************************)
(* Two callers on one facade, side by side: collection(name) taken one     *)
(* dictionary operation or one request at a time. With conc.locked the     *)
(* callers hold a lock around each call; without, their steps interleave.  *)
(* The server's list stays as it is through the run.                       *)
(***************************************************************************)
Resting(t) == conc.th[t].pc \in {"idle", "done"}
ConcLive == Ids(collection_cache) \cup {conc.th[t].ret.id : t \in Threads}
SetThread(t, rec) == conc' = [conc EXCEPT !.th[t] = rec]
ConcRest == UNCHANGED <<world, srvCols, srvGraphs, srvFuncs, graph_cache, call, held, removed>>
ConcFrame == ConcRest /\ UNCHANGED seen
Finish(t, outcome, ret) ==
    SetThread(t, [conc.th[t] EXCEPT !.pc = "done", !.outcome = outcome, !.ret = ret])

\* collection(name) is called: the caller drops what its last call gave it.
Begin(t, name) ==
    /\ Resting(t)
    /\ conc.locked => \A u \in Threads : Resting(u)
    /\ SetThread(t, [IdleThread EXCEPT !.pc = "test", !.name = name])
    /\ UNCHANGED collection_cache /\ ConcFrame

\* if name in self._collection_cache
Test(t) ==
    /\ conc.th[t].pc = "test"
    /\ SetThread(t, [conc.th[t] EXCEPT !.pc =
           IF conc.th[t].name \in DOMAIN collection_cache THEN "return" ELSE "list"])
    /\ UNCHANGED collection_cache /\ ConcFrame

\* return self._collection_cache[name]
ReturnCached(t) ==
    /\ conc.th[t].pc = "return"
    /\ IF conc.th[t].name \in DOMAIN collection_cache
       THEN Finish(t, "ok", collection_cache[conc.th[t].name])
       ELSE Finish(t, "KeyError", NoProxy)
    /\ UNCHANGED collection_cache /\ ConcFrame

\* real_cols = set(self.collections["all"])
ListCols(t) ==
    /\ conc.th[t].pc = "list"
    /\ \E st \in world.codes :
        LET listed == collections(srvCols, st)
        IN  IF ~listed.ok
            THEN Finish(t, listed.err, NoProxy) /\ UNCHANGED seen
            ELSE /\ SetThread(t, [conc.th[t] EXCEPT !.pc = "snapshot",
                                                    !.real_cols = SeqToSet(listed.all)])
                 /\ seen' = [seen EXCEPT !.Collection = SeqToSet(listed.all)]
    /\ UNCHANGED collection_cache /\ ConcRest

\* cached_cols = set(self._collection_cache)
Snapshot(t) ==
    /\ conc.th[t].pc = "snapshot"
    /\ LET cached_cols == DOMAIN collection_cache
       IN  SetThread(t, [conc.th[t] EXCEPT
               !.pc = "sync",
               !.stale = StaleCols(cached_cols, conc.th[t].real_cols),
               !.new = NewCols(conc.th[t].real_cols, cached_cols)])
    /\ UNCHANGED collection_cache /\ ConcFrame

\* del self._collection_cache[col_name], for one col_name of the first loop
DelOne(t) ==
    /\ conc.th[t].pc = "sync"
    /\ \E col_name \in conc.th[t].stale :
        IF col_name \in DOMAIN collection_cache
        THEN /\ collection_cache' = Del(collection_cache, col_name)
             /\ SetThread(t, [conc.th[t] EXCEPT !.stale = @ \ {col_name}])
        ELSE /\ Finish(t, "KeyError", NoProxy)
             /\ UNCHANGED collection_cache
    /\ ConcFrame

\* self._collection_cache[col_name] = Collection(...), for one col_name of
\* the second loop
InsertOne(t) ==
    /\ conc.th[t].pc = "sync" /\ conc.th[t].stale = {}
    /\ \E col_name \in conc.th[t].new :
        /\ collection_cache' =
               Put(collection_cache, col_name, Collection(col_name, FreshId(ConcLive)))
        /\ SetThread(t, [conc.th[t] EXCEPT !.new = @ \ {col_name}])
    /\ ConcFrame

\* if name not in self._collection_cache: raise CollectionNotFoundError(name)
CheckFound(t) ==
    /\ conc.th[t].pc = "sync" /\ conc.th[t].stale = {} /\ conc.th[t].new = {}
    /\ IF conc.th[t].name \notin DOMAIN collection_cache
       THEN Finish(t, "CollectionNotFoundError", NoProxy)
       ELSE SetThread(t, [conc.th[t] EXCEPT !.pc = "return"])
    /\ UNCHANGED collection_cache /\ ConcFrame

\* The lists a server holds, and the caches earlier calls left behind.
ConcLists ==
    {<<>>, SrvAddCol(<<>>, "a"), SrvAddCol(<<>>, "_b"),
     SrvAddCol(SrvAddCol(<<>>, "a"), "_b")}
ConcInit ==
    /\ world = World({"a", "_b"}, {}, {}, {200, 500})
    /\ srvCols \in ConcLists
    /\ \E cached \in SUBSET {"a", "_b"} :
        /\ collection_cache = InsertCollections(EmptyCache, cached, {})
        /\ seen = [NoneSeen EXCEPT !.Collection = cached]
    /\ conc \in {[locked |-> l, th |-> [t \in Threads |-> IdleThread]] : l \in BOOLEAN}
    /\ srvGraphs = <<>> /\ srvFuncs = <<>> /\ graph_cache = EmptyCache
    /\ call = Idle /\ held = NoProxy /\ removed = NoProxy

ConcNext ==
    \/ \E t \in Threads, name \in world.cols : Begin(t, name)
    \/ \E t \in Threads : Test(t)
    \/ \E t \in Threads : ReturnCached(t)
    \/ \E t \in Threads : ListCols(t)
    \/ \E t \in Threads : Snapshot(t)
    \/ \E t \in Threads : DelOne(t)
    \/ \E t \in Threads : InsertOne(t)
    \/ \E t \in Threads : CheckFound(t)

ConcSpec == ConcInit /\ [][ConcNext]_vars

(***************************************************************************)
(* execute_query over all its parameters, set and unset, false and zero    *)
(* among the values set.                                                   *)
(***************************************************************************)
BatchSizes == {None, Some(0), Some(2)}
Ttls == {None, Some(30)}
BindVars == {None, Some([x |-> 1])}
FullCounts == {None, Some(FALSE), Some(TRUE)}
PlanLimits == {None, Some(0), Some(2)}

Call_execute_query_of_all ==
    /\ call.op = "idle"
    /\ \E query \in Queries, count \in BOOLEAN, batch_size \in BatchSizes, ttl \in Ttls,
          bind_vars \in BindVars, full_count \in FullCounts, max_plans \in PlanLimits,
          optimizer_rules \in OptimizerRules, st \in world.codes :
        EndPlainStep(execute_query(query, count, batch_size, ttl, bind_vars, full_count,
                                   max_plans, optimizer_rules, st), srvFuncs)

QueryInit == Start(World({}, {}, {}, StatusCodes), <<>>, <<>>)
QueryNext ==
    \/ Call_execute_query_of_all
    \/ Return
QuerySpec == QueryInit /\ [][QueryNext]_vars

(***************************************************************************)
(* collections over the lists of a server that holds up to two user and    *)
(* two system collections, in any order.                                   *)
(***************************************************************************)
ListInit == Start(World({"a", "c", "_b", "_d"}, {}, {}, {200, 500}), <<>>, <<>>)
ListNext ==
    \/ Call_collections
    \/ EnvChangeCols
    \/ Return
ListSpec == ListInit /\ [][ListNext]_vars

(***************************************************************************)
(* The collection operations and the graph operations side by side: one    *)
(* facade, a server whose graph list holds the names of its collection     *)
(* list, and each operation called on both sides with the same name, the   *)
(* server doing, or failing to do, the same on both sides.                 *)
(***************************************************************************)
\* add_collection from its create request on: the statuses and the lists the
\* server answers its three requests with.
add_collection_run(cache, name, st1, cols2, st2, cols3, st3, used) ==
    LET post == Response("POST", "/_api/collection", "", st1)
        u == update_collection_cache(cache, cols2, st2, used)
        r == collection(u.cache, Str(name), cols3, st3, used \cup Ids(u.cache))
    IN  IF st1 # 200 THEN Raised("CollectionAddError", post, cache, <<post>>)
        ELSE IF u.outcome # "ok" THEN [u EXCEPT !.reqs = <<post>> \o @]
        ELSE [r EXCEPT !.reqs = <<post>> \o u.reqs \o @, !.fetches = u.fetches \o @]

\* add_graph likewise.
add_graph_run(cache, name, st1, gs2, st2, gs3, st3, used) ==
    LET post == Response("POST", "/_api/gharial", "", st1)
        u == update_graph_cache(cache, gs2, st2, used)
        r == graph(u.cache, Str(name), gs3, st3, used \cup Ids(u.cache))
    IN  IF st1 # 201 THEN Raised("GraphAddError", post, cache, <<post>>)
        ELSE IF u.outcome # "ok" THEN [u EXCEPT !.reqs = <<post>> \o @]
        ELSE [r EXCEPT !.reqs = <<post>> \o u.reqs \o @, !.fetches = u.fetches \o @]

\* remove_collection and remove_graph from their delete request on.
remove_collection_run(cache, name, st1, cols2, st2, used) ==
    LET delete == Response("DELETE", "/_api/collection/{}", name, st1)
        u == update_collection_cache(cache, cols2, st2, used)
    IN  IF st1 # 200 THEN Raised("CollectionRemoveError", delete, cache, <<delete>>)
        ELSE [u EXCEPT !.reqs = <<delete>> \o @]

remove_graph_run(cache, name, st1, gs2, st2, used) ==
    LET delete == Response("DELETE", "/_api/gharial/{}", name, st1)
        u == update_graph_cache(cache, gs2, st2, used)
    IN  IF st1 # 200 THEN Raised("GraphRemoveError", delete, cache, <<delete>>)
        ELSE [u EXCEPT !.reqs = <<delete>> \o @]

\* The statuses with which a server reports that it did, or did not do, what
\* an endpoint was asked.
Refused == world.codes \ Done2xx
ColCodes(done) == IF done THEN {200} ELSE Refused
GraphListCodes(done) == IF done THEN {200, 202} ELSE Refused
GraphAddCodes(done) == IF done THEN {201} ELSE Refused
\* Whether the server does it: it may whenever it can.
Does(possible) == IF possible THEN BOOLEAN ELSE {FALSE}

EndPairStep(op, name, c, g, cols) ==
    /\ call' = [Idle EXCEPT !.op = "pair", !.args = <<op, name>>,
                            !.val = [col |-> c, gr |-> g]]
    /\ collection_cache' = c.cache
    /\ graph_cache' = g.cache
    /\ srvCols' = cols
    /\ srvGraphs' = NamesOf(cols)
    /\ seen' = [Collection |-> IF c.fetches = <<>> THEN seen.Collection
                                ELSE c.fetches[Len(c.fetches)],
                 Graph |-> IF g.fetches = <<>> THEN seen.Graph
                           ELSE g.fetches[Len(g.fetches)]]
    /\ UNCHANGED <<world, srvFuncs, held, removed, conc>>

PairList ==
    /\ call.op = "idle"
    /\ \E done \in BOOLEAN :
       \E stc \in ColCodes(done), stg \in GraphListCodes(done) :
        LET lc == collections(srvCols, stc)
            lg == graphs(srvGraphs, stg)
        IN  EndPairStep("list", "",
                [Result(IF lc.ok THEN "ok" ELSE lc.err, IF lc.ok THEN NoRes ELSE lc.res,
                        NoProxy, collection_cache, <<lc.res>>, <<>>)
                    EXCEPT !.fetches = <<SeqToSet(lc.all)>>],
                [Result(IF lg.ok THEN "ok" ELSE lg.err, IF lg.ok THEN NoRes ELSE lg.res,
                        NoProxy, graph_cache, <<lg.res>>, <<>>)
                    EXCEPT !.fetches = <<SeqToSet(lg.keys)>>],
                srvCols)

PairLookup(name) ==
    /\ call.op = "idle"
    /\ \E done \in BOOLEAN :
       \E stc \in ColCodes(done), stg \in GraphListCodes(done) :
        EndPairStep("lookup", name.v,
            collection(collection_cache, name, srvCols, stc, Ids(collection_cache)),
            graph(graph_cache, name, srvGraphs, stg, Ids(graph_cache)),
            srvCols)

PairAdd(name) ==
    /\ call.op = "idle"
    /\ \E done1 \in Does(name \notin ColNamesOf(srvCols)), done2, done3 \in BOOLEAN :
        LET cols1 == IF done1 THEN SrvAddCol(srvCols, name) ELSE srvCols
        IN  \E cols2 \in DriftCols(cols1) : \E cols3 \in DriftCols(cols2) :
            \E stc1 \in ColCodes(done1), stc2 \in ColCodes(done2), stc3 \in ColCodes(done3),
               stg1 \in GraphAddCodes(done1), stg2 \in GraphListCodes(done2),
               stg3 \in GraphListCodes(done3) :
                LET c == add_collection_run(collection_cache, name, stc1, cols2, stc2,
                                            cols3, stc3, Ids(collection_cache))
                    g == add_graph_run(graph_cache, name, stg1, NamesOf(cols2), stg2,
                                       NamesOf(cols3), stg3, Ids(graph_cache))
                IN  EndPairStep("add", name, c, g,
                                IF ~done1 THEN cols1
                                ELSE IF Len(c.reqs) = 3 THEN cols3 ELSE cols2)

PairRemove(name) ==
    /\ call.op = "idle"
    /\ \E done1 \in Does(name \in ColNamesOf(srvCols)), done2 \in BOOLEAN :
        LET cols1 == IF done1 THEN SrvRemoveCol(srvCols, name) ELSE srvCols
        IN  \E cols2 \in DriftCols(cols1) :
            \E stc1 \in ColCodes(done1), stc2 \in ColCodes(done2),
               stg1 \in ColCodes(done1), stg2 \in GraphListCodes(done2) :
                EndPairStep("remove", name,
                    remove_collection_run(collection_cache, name, stc1, cols2, stc2,
                                          Ids(collection_cache)),
                    remove_graph_run(graph_cache, name, stg1, NamesOf(cols2), stg2,
                                     Ids(graph_cache)),
                    IF done1 THEN cols2 ELSE cols1)

PairEnvChange ==
    /\ call.op = "idle"
    /\ \E cols \in DriftCols(srvCols) \ {srvCols} :
        EndPairStep("", "", Result("ok", NoRes, NoProxy, collection_cache, <<>>, <<>>),
                    Result("ok", NoRes, NoProxy, graph_cache, <<>>, <<>>), cols)

PairInit == Start(World({"a", "_b"}, {"a", "_b"}, {}, {200, 201, 202, 500}), <<>>, <<>>)
PairNext ==
    \/ PairList
    \/ \E name \in LookupArgs(world.cols) : PairLookup(name)
    \/ \E name \in world.cols : PairAdd(name)
    \/ \E name \in world.cols : PairRemove(name)
    \/ PairEnvChange
    \/ Return
PairSpec == PairInit /\ [][PairNext]_vars

(***************************************************************************)
(* The AQL function registry with two functions of one namespace and one   *)
(* of another.                                                             *)
(***************************************************************************)
AqlInit ==
    Start(World({}, {}, {<<"ns", "f">>, <<"ns", "g">>, <<"other", "h">>}, {200, 500}),
          <<>>, <<>>)
AqlNext ==
    \/ Call_aql_functions
    \/ \E name \in world.funcs, code \in FuncCodes : Call_add_aql_function(name, code)
    \/ \E name \in world.funcs \cup {<<"ns">>}, group \in {None, Some(TRUE), Some(FALSE)} :
           Call_remove_aql_function(name, group)
    \/ EnvChangeFuncs
    \/ Return
AqlSpec == AqlInit /\ [][AqlNext]_vars

(***************************************************************************)
(* Properties.                                                             *)
(***************************************************************************)
IsLookup(op) == call.op = op /\ call.args[1].isStr
IsListGet(req, path) == req.method = "GET" /\ req.path = path /\ req.name = ""

\* C1 (as amended): collection(n) for a name n of the server's collection
\* list returns a proxy named n, unless the one list request it makes on a
\* cache miss fails, and then it raises CollectionListError; and a lookup of n
\* that returns while the list has not changed since an earlier lookup of n
\* returned returns the very same proxy. Likewise graph(n) and GraphListError.
C1_LookupOfListedName ==
    /\ IsLookup("collection") /\ call.args[1].v \in ColNamesOf(srvCols)
        => \/ /\ call.outcome = "ok"
              /\ call.ret.kind = "Collection" /\ call.ret.name = call.args[1].v
           \/ /\ call.outcome = "CollectionListError"
              /\ Len(call.reqs) = 1 /\ call.res = call.reqs[1]
              /\ call.res.status # 200
    /\ IsLookup("graph") /\ call.args[1].v \in SeqToSet(srvGraphs)
        => \/ /\ call.outcome = "ok"
              /\ call.ret.kind = "Graph" /\ call.ret.name = call.args[1].v
           \/ /\ call.outcome = "GraphListError"
              /\ Len(call.reqs) = 1 /\ call.res = call.reqs[1]
              /\ call.res.status \notin {200, 202}
    /\ IsLookup("collection") /\ call.outcome = "ok" /\ call.again => call.ret = held
    /\ IsLookup("graph") /\ call.outcome = "ok" /\ call.again => call.ret = held

\* C1 witness: a lookup of a listed name returned the proxy an earlier lookup
\* of that name had returned, from a cache that holds another name too.
C1_SameProxyAgain ==
    /\ IsLookup("collection") /\ call.outcome = "ok" /\ call.again
    /\ call.args[1].v \in ColNamesOf(srvCols)
    /\ held = call.ret
    /\ Cardinality(DOMAIN collection_cache) = 2

\* C1 as claimed: collection(n) for a listed n always returns a proxy named n.
C1_AsClaimed ==
    /\ IsLookup("collection") /\ call.args[1].v \in ColNamesOf(srvCols)
        => call.outcome = "ok" /\ call.ret.name = call.args[1].v
    /\ IsLookup("graph") /\ call.args[1].v \in SeqToSet(srvGraphs)
        => call.outcome = "ok" /\ call.ret.name = call.args[1].v

\* C2: when add_collection, remove_collection, rename_collection, add_graph
\* or remove_graph returns, the keys of its cache are exactly the names of the
\* list the call fetched (the last one it fetched).
C2_CacheIsFetchedList ==
    /\ call.op \in {"add_collection", "remove_collection", "rename_collection"}
          /\ call.outcome = "ok"
        => /\ call.fetches # <<>>
           /\ DOMAIN collection_cache = call.fetches[Len(call.fetches)]
    /\ call.op \in {"add_graph", "remove_graph"} /\ call.outcome = "ok"
        => /\ call.fetches # <<>>
           /\ DOMAIN graph_cache = call.fetches[Len(call.fetches)]

\* C2 witness: a rename returned and the cache holds the new name alone.
C2_RenamedInCache ==
    /\ call.op = "rename_collection" /\ call.outcome = "ok"
    /\ DOMAIN collection_cache = {call.args[2]}
    /\ ColNamesOf(srvCols) = {call.args[2]}

\* C3 (as amended): after remove_collection(n) returned and while n is not
\* created again, collection(n) makes exactly one list request and raises
\* CollectionNotFoundError, or CollectionListError when that request fails.
\* Likewise remove_graph(n) and graph(n).
C3_LookupAfterRemove ==
    /\ IsLookup("collection") /\ removed.kind = "Collection"
          /\ removed.name = call.args[1].v
        => /\ Len(call.reqs) = 1
           /\ IsListGet(call.reqs[1], "/_api/collection")
           /\ IF call.reqs[1].status = 200
              THEN call.outcome = "CollectionNotFoundError"
              ELSE call.outcome = "CollectionListError"
    /\ IsLookup("graph") /\ removed.kind = "Graph" /\ removed.name = call.args[1].v
        => /\ Len(call.reqs) = 1
           /\ IsListGet(call.reqs[1], "/_api/gharial")
           /\ IF call.reqs[1].status \in {200, 202}
              THEN call.outcome = "GraphNotFoundError"
              ELSE call.outcome = "GraphListError"

\* C3 witness: the lookup of a removed collection found it missing.
C3_RemovedNotFound ==
    /\ IsLookup("collection") /\ removed.kind = "Collection"
    /\ removed.name = call.args[1].v
    /\ call.outcome = "CollectionNotFoundError"

\* C3 as claimed: the lookup after a remove raises the not-found error.
C3_AsClaimed ==
    /\ IsLookup("collection") /\ removed.kind = "Collection"
          /\ removed.name = call.args[1].v
        => call.outcome = "CollectionNotFoundError" /\ Len(call.reqs) <= 1
    /\ IsLookup("graph") /\ removed.kind = "Graph" /\ removed.name = call.args[1].v
        => call.outcome = "GraphNotFoundError" /\ Len(call.reqs) <= 1

\* C4: when add_collection(n) returns it returns the proxy cached under n,
\* and collection(n) called next, the server's list as it is, returns that
\* same proxy, named n, without a request, whatever the server would answer.
\* Likewise add_graph(n) and graph(n).
C4_AddThenLookup ==
    /\ call.op = "add_collection" /\ call.outcome = "ok"
        => /\ call.args[1] \in DOMAIN collection_cache
           /\ call.ret = collection_cache[call.args[1]]
           /\ call.ret.name = call.args[1]
           /\ \A st \in StatusCodes :
                LET next == collection(collection_cache, Str(call.args[1]), srvCols, st,
                                       Live(collection_cache, "Collection"))
                IN  /\ next.outcome = "ok" /\ next.ret = call.ret
                    /\ next.reqs = <<>> /\ next.cache = collection_cache
    /\ call.op = "add_graph" /\ call.outcome = "ok"
        => /\ call.args[1] \in DOMAIN graph_cache
           /\ call.ret = graph_cache[call.args[1]]
           /\ call.ret.name = call.args[1]
           /\ \A st \in StatusCodes :
                LET next == graph(graph_cache, Str(call.args[1]), srvGraphs, st,
                                  Live(graph_cache, "Graph"))
                IN  /\ next.outcome = "ok" /\ next.ret = call.ret
                    /\ next.reqs = <<>> /\ next.cache = graph_cache

\* C4 witness: add_graph returned the proxy of a graph added beside another.
C4_GraphAdded ==
    /\ call.op = "add_graph" /\ call.outcome = "ok"
    /\ call.ret = graph_cache[call.args[1]]
    /\ Cardinality(DOMAIN graph_cache) = 2


\* C5 (as amended): collection(n) or graph(n) with a string n that is a key
\* of the cache returns the cached proxy and makes no request, be n on the
\* server or not; with an n that is no key it makes exactly one request, the
\* list request, and returns the proxy of n if the list holds n, raises the
\* not-found error if it does not, and raises the list error if the request
\* fails. No lookup makes more than one request.
C5_LookupStep ==
    /\ call.op = "idle" /\ call'.op = "collection" /\ call'.args[1].isStr
        => IF call'.args[1].v \in DOMAIN collection_cache
           THEN /\ call'.reqs = <<>> /\ call'.outcome = "ok"
                /\ call'.ret = collection_cache[call'.args[1].v]
           ELSE /\ Len(call'.reqs) = 1
                /\ IsListGet(call'.reqs[1], "/_api/collection")
                /\ call'.outcome =
                     IF call'.reqs[1].status # 200 THEN "CollectionListError"
                     ELSE IF call'.args[1].v \in ColNamesOf(srvCols) THEN "ok"
                     ELSE "CollectionNotFoundError"
    /\ call.op = "idle" /\ call'.op = "graph" /\ call'.args[1].isStr
        => IF call'.args[1].v \in DOMAIN graph_cache
           THEN /\ call'.reqs = <<>> /\ call'.outcome = "ok"
                /\ call'.ret = graph_cache[call'.args[1].v]
           ELSE /\ Len(call'.reqs) = 1
                /\ IsListGet(call'.reqs[1], "/_api/gharial")
                /\ call'.outcome =
                     IF call'.reqs[1].status \notin {200, 202} THEN "GraphListError"
                     ELSE IF call'.args[1].v \in SeqToSet(srvGraphs) THEN "ok"
                     ELSE "GraphNotFoundError"
C5_LookupRequests == [][C5_LookupStep]_vars

\* C5 witness: a lookup returned, without a request, the cached proxy of a
\* collection the server no longer holds.
C5_StaleHit ==
    /\ IsLookup("collection") /\ call.outcome = "ok" /\ call.reqs = <<>>
    /\ call.args[1].v \notin ColNamesOf(srvCols)

\* C5 as claimed: a lookup that misses the cache makes one list request and
\* then returns the proxy or raises not-found.
C5_MissStepAsClaimed ==
    /\ call.op = "idle" /\ call'.op = "collection" /\ call'.args[1].isStr
          /\ call'.args[1].v \notin DOMAIN collection_cache
        => /\ Len(call'.reqs) = 1
           /\ call'.outcome \in {"ok", "CollectionNotFoundError"}
    /\ call.op = "idle" /\ call'.op = "graph" /\ call'.args[1].isStr
          /\ call'.args[1].v \notin DOMAIN graph_cache
        => /\ Len(call'.reqs) = 1
           /\ call'.outcome \in {"ok", "GraphNotFoundError"}
C5_AsClaimed == [][C5_MissStepAsClaimed]_vars

\* C6: collection(x) and graph(x) with an x that is no string raise
\* TypeError, make no request and leave both caches as they were.
C6_NonStringStep ==
    call.op = "idle" /\ call'.op \in {"collection", "graph"} /\ ~call'.args[1].isStr
        => /\ call'.outcome = "TypeError"
           /\ call'.reqs = <<>>
           /\ collection_cache' = collection_cache
           /\ graph_cache' = graph_cache
C6_NonStringRejected == [][C6_NonStringStep]_vars

\* C6 witness: graph(42) raised TypeError on a facade whose caches hold names.
C6_Rejected42 ==
    /\ call.op = "graph" /\ ~call.args[1].isStr /\ call.outcome = "TypeError"
    /\ DOMAIN graph_cache # {} /\ DOMAIN collection_cache # {}

\* The success set and the error kind the specification declares per endpoint.
Endpoints ==
    { <<"GET", "/_api/database/current", {200}, "DatabasePropertyError">>,
      <<"POST", "/_api/explain", {200}, "QueryExplainError">>,
      <<"POST", "/_api/query", {200}, "QueryValidateError">>,
      <<"POST", "/_api/cursor", {201}, "QueryExecuteError">>,
      <<"GET", "/_api/collection", {200}, "CollectionListError">>,
      <<"POST", "/_api/collection", {200}, "CollectionAddError">>,
      <<"DELETE", "/_api/collection/{}", {200}, "CollectionRemoveError">>,
      <<"PUT", "/_api/collection/{}/rename", {200}, "CollectionRenameError">>,
      <<"GET", "/_api/aqlfunction", {200}, "AQLFunctionListError">>,
      <<"POST", "/_api/aqlfunction", {200, 201}, "AQLFunctionAddError">>,
      <<"DELETE", "/_api/aqlfunction/{}", {200}, "AQLFunctionRemoveError">>,
      <<"POST", "/_api/transaction", {200}, "TransactionExecuteError">>,
      <<"GET", "/_api/gharial", {200, 202}, "GraphListError">>,
      <<"POST", "/_api/gharial", {201}, "GraphAddError">>,
      <<"DELETE", "/_api/gharial/{}", {200}, "GraphRemoveError">> }
Endpoint(req) == CHOOSE e \in Endpoints : e[1] = req.method /\ e[2] = req.path

C8_FrameStep ==
    /\ call'.op \in {"idle", "properties", "explain_query", "validate_query",
                     "execute_query", "collections", "graphs", "aql_functions",
                     "add_aql_function", "remove_aql_function", "execute_transaction"}
        => collection_cache' = collection_cache /\ graph_cache' = graph_cache
    /\ call'.op \in {"collection", "add_collection", "remove_collection",
                     "rename_collection"}
        => graph_cache' = graph_cache
    /\ call'.op \in {"graph", "add_graph", "remove_graph"}
        => collection_cache' = collection_cache
C8_CachesFramed == [][C8_FrameStep]_vars

\* C8 witness: add_aql_function returned on a facade whose caches hold names.
C8_FunctionAddedBesideCaches ==
    /\ call.op = "add_aql_function" /\ call.outcome = "ok"
    /\ DOMAIN collection_cache # {} /\ DOMAIN graph_cache # {}

\* Two callers hold different proxies of one name of a list that never
\* changed, or a caller met a key that another had deleted.
IdentityBroken ==
    \E t, u \in Threads :
        /\ conc.th[t].pc = "done" /\ conc.th[u].pc = "done"
        /\ conc.th[t].outcome = "ok" /\ conc.th[u].outcome = "ok"
        /\ conc.th[t].name = conc.th[u].name
        /\ conc.th[t].ret # conc.th[u].ret
KeyErrorRaised == \E t \in Threads : conc.th[t].outcome = "KeyError"

\* C9: when the callers hold a lock around each call, no two of them hold
\* different proxies of one name and none meets a deleted key; without the
\* lock there is an interleaving of two lookups in which they do (the witness).
C9_SerialisedIsSafe == conc.locked => ~IdentityBroken /\ ~KeyErrorRaised

\* C9 witness: without a lock, two callers hold different proxies of one name.
C9_UnlockedBreaksIdentity == ~conc.locked /\ IdentityBroken

\* C10: explain_query makes exactly one request, a POST to /_api/explain, no
\* request to /_api/cursor, and no cursor, whether all_plans is set or not and
\* whether it returns or raises QueryExplainError.
C10_ExplainOnly ==
    call.op = "explain_query"
        => /\ Len(call.reqs) = 1
           /\ call.reqs[1].method = "POST" /\ call.reqs[1].path = "/_api/explain"
           /\ \A i \in 1..Len(call.reqs) : call.reqs[i].path # "/_api/cursor"
           /\ ~call.cursor
           /\ call.outcome \in {"ok", "QueryExplainError"}
           /\ call.outcome = "ok" <=> call.reqs[1].status = 200

\* C10 witness: explain_query returned all the plans of a query.
C10_AllPlansExplained ==
    /\ call.op = "explain_query" /\ call.outcome = "ok"
    /\ call.args[2] /\ call.val = <<"plans">>

\* Whether a request body has the field, with that value, exactly when the
\* parameter is set.
SentIffSet(body, field, param) ==
    IF param.some THEN field \in DOMAIN body /\ body[field] = param.v
    ELSE field \notin DOMAIN body

\* C11: the body of the execute_query request has batchSize, ttl and
\* bindVars exactly when batch_size, ttl and bind_vars are set, with the value
\* given; it has options exactly when one of full_count, max_plans and
\* optimizer_rules is set, be it to false or zero, and options has fullCount,
\* maxNumberOfPlans and optimizer.rules exactly for those that are set; query
\* and count are always there and nothing else is.
C11_OptionalFields ==
    call.op = "execute_query"
        => /\ call.data["query"] = call.args[1] /\ call.data["count"] = call.args[2]
           /\ SentIffSet(call.data, "batchSize", call.args[3])
           /\ SentIffSet(call.data, "ttl", call.args[4])
           /\ SentIffSet(call.data, "bindVars", call.args[5])
           /\ "options" \in DOMAIN call.data
                <=> call.args[6].some \/ call.args[7].some \/ call.args[8].some
           /\ "options" \in DOMAIN call.data
                => /\ SentIffSet(call.data["options"], "fullCount", call.args[6])
                   /\ SentIffSet(call.data["options"], "maxNumberOfPlans", call.args[7])
                   /\ IF call.args[8].some
                      THEN /\ "optimizer" \in DOMAIN call.data["options"]
                           /\ call.data["options"]["optimizer"]
                                = Dict("rules", call.args[8].v)
                      ELSE "optimizer" \notin DOMAIN call.data["options"]
                   /\ DOMAIN call.data["options"]
                        \subseteq {"fullCount", "maxNumberOfPlans", "optimizer"}
           /\ DOMAIN call.data
                \subseteq {"query", "count", "batchSize", "ttl", "bindVars", "options"}

\* C11 witness: a query sent with full_count set to false and a batch size of
\* zero, and nothing else set.
C11_FalseAndZeroSent ==
    /\ call.op = "execute_query"
    /\ call.args[6] = Some(FALSE) /\ ~call.args[7].some /\ ~call.args[8].some
    /\ call.args[3] = Some(0) /\ ~call.args[4].some /\ ~call.args[5].some
    /\ DOMAIN call.data = {"query", "count", "batchSize", "options"}
    /\ DOMAIN call.data["options"] = {"fullCount"}

\* The names of a list that bear the flag, in the order of the list.
RECURSIVE NamesWithFlag(_, _)
NamesWithFlag(cols, flag) ==
    IF cols = <<>> THEN <<>>
    ELSE (IF Head(cols).isSystem = flag THEN <<Head(cols).name>> ELSE <<>>)
             \o NamesWithFlag(Tail(cols), flag)

\* C12: collections returns as user the names of the server's list whose
\* isSystem is false and as system those whose isSystem is true, each in the
\* order of the list, and as all the user names followed by the system names;
\* called again on the same list it returns the same three sequences.
C12_Partition ==
    call.op = "collections" /\ call.outcome = "ok"
        => /\ call.val.user = NamesWithFlag(srvCols, FALSE)
           /\ call.val.system = NamesWithFlag(srvCols, TRUE)
           /\ call.val.all = call.val.user \o call.val.system
           /\ Len(call.val.all) = Len(srvCols)
           /\ LET again == collections(srvCols, 200)
              IN  /\ again.ok
                  /\ again.user = call.val.user /\ again.system = call.val.system
                  /\ again.all = call.val.all

\* C12 witness: a list that starts with a system collection and holds two of
\* each sort.
C12_MixedList ==
    /\ call.op = "collections" /\ call.outcome = "ok"
    /\ Len(srvCols) = 4 /\ srvCols[1].isSystem /\ ~srvCols[2].isSystem
    /\ Len(call.val.user) = 2 /\ Len(call.val.system) = 2

\* The graph error that answers to a collection error.
GraphOutcome(outcome) ==
    CASE outcome = "CollectionListError" -> "GraphListError"
      [] outcome = "CollectionNotFoundError" -> "GraphNotFoundError"
      [] outcome = "CollectionAddError" -> "GraphAddError"
      [] outcome = "CollectionRemoveError" -> "GraphRemoveError"
      [] OTHER -> outcome

\* C13: with the graph operations called side by side with the collection
\* operations, on a graph list of the same names and with the server doing or
\* refusing the same, after every step the two caches have the same keys and
\* under each key proxies of the same name and the same identity history, and
\* the two calls made as many requests, fetched the same names, and both
\* returned proxies of one name and identity or raised errors of one sort.
C13_SameMachine ==
    /\ DOMAIN graph_cache = DOMAIN collection_cache
    /\ \A n \in DOMAIN collection_cache :
        /\ graph_cache[n].name = collection_cache[n].name
        /\ graph_cache[n].id = collection_cache[n].id
        /\ graph_cache[n].kind = "Graph" /\ collection_cache[n].kind = "Collection"
    /\ call.op = "pair"
        => /\ call.val.gr.outcome = GraphOutcome(call.val.col.outcome)
           /\ Len(call.val.gr.reqs) = Len(call.val.col.reqs)
           /\ call.val.gr.fetches = call.val.col.fetches
           /\ call.val.gr.ret.name = call.val.col.ret.name
           /\ call.val.gr.ret.id = call.val.col.ret.id

\* C13 witness: a name was added on both sides to caches that held a name the
\* server had lost, and both sides dropped the one and returned the other.
C13_BothAddedAndDropped ==
    /\ call.op = "pair" /\ call.args[1] = "add"
    /\ call.val.col.outcome = "ok" /\ call.val.gr.outcome = "ok"
    /\ call.val.gr.ret.id = 2
    /\ DOMAIN graph_cache = {call.args[2]}

\* A registry of the server, and a mapping returned, as sets of pairs.
PairsOfRegistry(fs) == {<<fs[i].name, fs[i].code>> : i \in 1..Len(fs)}
PairsOfMapping(f) == {<<n, f[n]>> : n \in DOMAIN f}
IsRegistryGet(req) == req.method = "GET" /\ req.path = "/_api/aqlfunction"

\* C14: every aql_functions call makes one list request and returns the
\* server's registry; add_aql_function and remove_aql_function, when they
\* return, have made the mutating request and then one list request, and
\* return the registry the server holds at that list request, which with no
\* change out of band is the registry as the mutation left it.
C14_Step ==
    /\ call'.op = "aql_functions"
        => /\ Len(call'.reqs) = 1 /\ IsRegistryGet(call'.reqs[1])
           /\ call'.outcome = "ok"
                => PairsOfMapping(call'.val) = PairsOfRegistry(srvFuncs)
    /\ call'.op \in {"add_aql_function", "remove_aql_function"} /\ call'.outcome = "ok"
        => /\ Len(call'.reqs) = 2
           /\ call'.reqs[1].method = IF call'.op = "add_aql_function" THEN "POST"
                                                                      ELSE "DELETE"
           /\ IsRegistryGet(call'.reqs[2])
           /\ PairsOfMapping(call'.val) = PairsOfRegistry(srvFuncs')
    /\ call'.op = "add_aql_function" /\ call'.outcome = "ok"
          /\ srvFuncs' = SrvAddFunc(srvFuncs, call'.args[1], call'.args[2])
        => PairsOfMapping(call'.val)
             = {p \in PairsOfRegistry(srvFuncs) : p[1] # call'.args[1]}
                 \cup {<<call'.args[1], call'.args[2]>>}
C14_RegistryRefetched == [][C14_Step]_vars

\* C14 witness: add_aql_function registered code c2 and returned the server's
\* registry of two functions with it.
C14_CodeReplaced ==
    /\ call.op = "add_aql_function" /\ call.outcome = "ok"
    /\ Cardinality(DOMAIN call.val) = 2
    /\ call.val[call.args[1]] = "c2"
    /\ PairsOfMapping(call.val) = PairsOfRegistry(srvFuncs)

\* Whether a qualified name starts with the namespaces of p.
StartsWith(n, p) == \E k \in 0..Len(n) : SubSeq(n, 1, k) = p

\* C15: remove_aql_function(p, group=True) sends the delete for p with
\* group set to true, and when it returns and nothing changed out of band,
\* the registry it returns is the registry before the call less the functions
\* whose name starts with p; with group false it sends group false, with
\* group omitted it sends no group, and the registry it returns is the
\* registry before the call less the function named p.
C15_Step ==
    call'.op = "remove_aql_function"
        => /\ call'.reqs[1].method = "DELETE"
           /\ call'.reqs[1].path = "/_api/aqlfunction/{}"
           /\ call'.reqs[1].name = QName(call'.args[1])
           /\ IF call'.args[2].some
              THEN DOMAIN call'.data = {"group"} /\ call'.data["group"] = call'.args[2].v
              ELSE DOMAIN call'.data = {}
           /\ call'.outcome = "ok"
                 /\ PairsOfRegistry(srvFuncs') \subseteq PairsOfRegistry(srvFuncs)
                 /\ Len(srvFuncs) - Len(srvFuncs')
                      = Cardinality({q \in PairsOfRegistry(srvFuncs) :
                                        IF call'.args[2].some /\ call'.args[2].v
                                        THEN StartsWith(q[1], call'.args[1])
                                        ELSE q[1] = call'.args[1]})
                => PairsOfMapping(call'.val)
                     = {q \in PairsOfRegistry(srvFuncs) :
                           ~(IF call'.args[2].some /\ call'.args[2].v
                             THEN StartsWith(q[1], call'.args[1])
                             ELSE q[1] = call'.args[1])}
C15_GroupRemoval == [][C15_Step]_vars

\* C15 witness: the removal of the group ns returned a registry that holds the
\* function of the other namespace alone.
C15_GroupRemoved ==
    /\ call.op = "remove_aql_function" /\ call.outcome = "ok"
    /\ call.args[1] = <<"ns">> /\ call.args[2] = Some(TRUE)
    /\ DOMAIN call.val = {<<"other", "h">>}

Reconciled(before, after, fetched, kept) ==
    IF fetched = <<>> THEN after = before
    ELSE /\ DOMAIN after = fetched[Len(fetched)]
         /\ \A n \in DOMAIN before \ DOMAIN after : \E i \in DOMAIN fetched : n \notin fetched[i]
         /\ \A n \in DOMAIN before \cap DOMAIN after :
              after[n] # before[n] => \E i \in DOMAIN fetched : n \notin fetched[i]
         /\ \A n \in DOMAIN after :
              n \notin DOMAIN before \/ after[n] # before[n]
                => /\ after[n].name = n
                   /\ after[n].id \notin Ids(before) \cup {kept.id}
         /\ Len(fetched) = 1
              => /\ DOMAIN before \ DOMAIN after = DOMAIN before \ fetched[1]
                 /\ DOMAIN after \ DOMAIN before = fetched[1] \ DOMAIN before

\* C17: in every step a cache changes only by the reconciliation passes of the
\* call: it ends with the names of the last list fetched; a name leaves it,
\* or gets another proxy, only if a list fetched in the step did not hold it; a
\* name that enters it gets a proxy that is none of those cached or held; and
\* all other entries stay the very proxies they were.
C17_Step ==
    /\ Reconciled(collection_cache, collection_cache',
                  IF call'.op \in {"collection", "add_collection", "remove_collection",
                                   "rename_collection"}
                  THEN call'.fetches ELSE <<>>,
                  IF held.kind = "Collection" THEN held ELSE NoProxy)
    /\ Reconciled(graph_cache, graph_cache',
                  IF call'.op \in {"graph", "add_graph", "remove_graph"}
                  THEN call'.fetches ELSE <<>>,
                  IF held.kind = "Graph" THEN held ELSE NoProxy)
C17_ReconcileExact == [][C17_Step]_vars

\* C17 witness: a lookup of another name reconciled the cache and left the
\* proxy an earlier lookup had returned where it was.
C17_KeptThroughPass ==
    /\ IsLookup("collection") /\ call.outcome = "ok" /\ Len(call.fetches) = 1
    /\ held.kind = "Collection" /\ held.name # call.args[1].v
    /\ held.name \in DOMAIN collection_cache
    /\ collection_cache[held.name] = held

\* A step in which rename_collection(a, b) returns, b was not cached before,
\* and the server changed by the rename alone.
C18_Renamed ==
    /\ call.op = "idle" /\ call'.op = "rename_collection" /\ call'.outcome = "ok"
    /\ call'.args[2] \notin DOMAIN collection_cache
    /\ srvCols' = SrvRenameCol(srvCols, call'.args[1], call'.args[2])

\* What that step does, but for the lookup of the old name: one rename
\* request and one list request, a single reconciliation, the old name gone
\* from the cache, the new name cached with a proxy that is none of those
\* cached before, and a lookup of the new name returns it without a request.
C18_Call ==
    LET a == call'.args[1]
        b == call'.args[2]
        hit == collection(collection_cache', Str(b), srvCols', 200,
                          Ids(collection_cache'))
    IN  /\ Len(call'.reqs) = 2
        /\ call'.reqs[1].method = "PUT"
        /\ call'.reqs[1].path = "/_api/collection/{}/rename"
        /\ call'.reqs[1].name = a
        /\ IsListGet(call'.reqs[2], "/_api/collection")
        /\ Len(call'.fetches) = 1
        /\ a \notin DOMAIN collection_cache'
        /\ b \in DOMAIN collection_cache'
        /\ hit.outcome = "ok" /\ hit.reqs = <<>>
        /\ hit.ret = collection_cache'[b]
        /\ hit.ret.name = b
        /\ hit.ret.id \notin Ids(collection_cache)

\* The lookup of the old name that follows, the list request answered st.
C18_OldName(st) ==
    collection(collection_cache', Str(call'.args[1]), srvCols', st,
               Ids(collection_cache')).outcome

\* C18 (as amended): after rename_collection(a, b) returns (b not cached
\* before, no out-of-band change) the call has made one rename request and
\* one reconciliation, a is no cache key, collection(b) returns a proxy named
\* b that is not the instance cached under a, and collection(a) raises
\* CollectionNotFoundError if its list request is answered 200 and
\* CollectionListError if it is not.
C18_Step ==
    C18_Renamed
      => /\ C18_Call
         /\ \A st \in world.codes :
              C18_OldName(st) = IF st = 200 THEN "CollectionNotFoundError"
                                            ELSE "CollectionListError"
C18_RenameReconciles == [][C18_Step]_vars

\* C18 witness: a rename has returned, and the cache holds the new name and
\* not the old one, as the server does.
C18_RenameReturned ==
    /\ call.op = "rename_collection" /\ call.outcome = "ok"
    /\ Len(call.reqs) = 2 /\ call.args[1] # call.args[2]
    /\ DOMAIN collection_cache = {call.args[2]}
    /\ ColNamesOf(srvCols) = {call.args[2]}

\* C18 as stated: the lookup of the old name raises CollectionNotFoundError
\* whatever its list request is answered.
C18_AsClaimedStep ==
    C18_Renamed
      => /\ C18_Call
         /\ \A st \in world.codes : C18_OldName(st) = "CollectionNotFoundError"
C18_AsClaimed == [][C18_AsClaimedStep]_vars

\* The status a mutating operation takes for success, and the error it raises
\* on any other.
C19_Accepts ==
    [add_collection    |-> [status |-> 200, err |-> "CollectionAddError"],
     remove_collection |-> [status |-> 200, err |-> "CollectionRemoveError"],
     rename_collection |-> [status |-> 200, err |-> "CollectionRenameError"],
     add_graph         |-> [status |-> 201, err |-> "GraphAddError"],
     remove_graph      |-> [status |-> 200, err |-> "GraphRemoveError"]]

\* C19: a mutating call whose own request is answered another status than the
\* one it accepts raises its own error with that response, has sent that one
\* request only, has fetched no list and reconciled nothing, and leaves both
\* caches as they were.
C19_Step ==
    (/\ call.op = "idle" /\ call'.op \in DOMAIN C19_Accepts
     /\ call'.reqs[1].status # C19_Accepts[call'.op].status)
      => /\ call'.outcome = C19_Accepts[call'.op].err
         /\ call'.res = call'.reqs[1]
         /\ Len(call'.reqs) = 1
         /\ call'.fetches = <<>>
         /\ collection_cache' = collection_cache
         /\ graph_cache' = graph_cache
C19_FailedMutationLeavesCaches == [][C19_Step]_vars

\* C19 witness: a remove of a cached collection was refused, and the name is
\* still cached after the one request.
C19_RemoveRefused ==
    /\ call.op = "remove_collection" /\ call.outcome = "CollectionRemoveError"
    /\ Len(call.reqs) = 1 /\ call.fetches = <<>>
    /\ call.args[1] \in DOMAIN collection_cache

\* The list requests among the requests reqs of a call.
C20_ListGets(reqs) ==
    {i \in DOMAIN reqs : \/ IsListGet(reqs[i], "/_api/collection")
                         \/ IsListGet(reqs[i], "/_api/gharial")}

\* A cache after a call that raised a list error: as before the call when no
\* list was fetched; and when one was, the cache the pass that fetched it
\* made, with no name removed or added since.
C20_AsPassesLeftIt(before, after, fetched) ==
    IF fetched = <<>> THEN after = before
    ELSE /\ DOMAIN after = fetched[Len(fetched)]
         /\ \A n \in DOMAIN before \cap DOMAIN after : after[n] = before[n]

\* C20: a call that raises CollectionListError or GraphListError ends with a
\* list request that failed and carries its response; every list request
\* before it succeeded; the failed pass changed nothing, so a call whose only
\* list request failed (a lookup miss, or the reconciliation after a mutating
\* request that succeeded) leaves both caches as they were before the call.
C20_Step ==
    (call.op = "idle" /\ call'.outcome \in {"CollectionListError", "GraphListError"})
      => LET reqs == call'.reqs
             last == reqs[Len(reqs)]
         IN  /\ reqs # <<>> /\ call'.res = last
             /\ IF call'.outcome = "CollectionListError"
                THEN IsListGet(last, "/_api/collection") /\ last.status # 200
                ELSE IsListGet(last, "/_api/gharial") /\ last.status \notin {200, 202}
             /\ Cardinality(C20_ListGets(reqs)) = Len(call'.fetches) + 1
             /\ call'.op \in DOMAIN C19_Accepts
                  => reqs[1].status = C19_Accepts[call'.op].status
             /\ call'.fetches # <<>> => call'.op \in {"add_collection", "add_graph"}
             /\ C20_AsPassesLeftIt(collection_cache, collection_cache',
                                   IF call'.outcome = "CollectionListError"
                                   THEN call'.fetches ELSE <<>>)
             /\ C20_AsPassesLeftIt(graph_cache, graph_cache',
                                   IF call'.outcome = "GraphListError"
                                   THEN call'.fetches ELSE <<>>)
C21_CacheIsLastFetch ==
    /\ DOMAIN collection_cache = seen.Collection
    /\ DOMAIN graph_cache = seen.Graph
    /\ \A n \in DOMAIN collection_cache :
         collection_cache[n].kind = "Collection" /\ collection_cache[n].name = n
    /\ \A n \in DOMAIN graph_cache :
         graph_cache[n].kind = "Graph" /\ graph_cache[n].name = n

\* C21 witness: a call ended with a list request that failed, and the cache
\* holds the names of the list fetched before, which the server holds no more.
C21_StaleAfterFailedFetch ==
    /\ call.outcome = "CollectionListError"
    /\ seen.Collection # {}
    /\ DOMAIN collection_cache = seen.Collection
    /\ seen.Collection # ColNamesOf(srvCols)

====
